---------------------------- MODULE Spec2Model ----------------------------
(***************************************************************************)
(* A model of src/src/anki.py (deck, model, template and note generation,  *)
(* archive write and read) with the two functions of src/src/media.py that *)
(* change the columns of the table (add_phonetics, add_sounds).            *)
(*                                                                         *)
(* Representation.                                                         *)
(*  - A Python str that is inspected character by character (cell values,  *)
(*    note fields, the flds and tags columns of the archive) is a sequence *)
(*    of characters, each character a one-character string; US stands for  *)
(*    the single character U+001F.                                         *)
(*  - A column name, a model name or a file name is a TLA+ string.         *)
(*  - A template is the sequence of the pieces that "".join() glues.       *)
(*  - An unbounded Python int that may exceed 2^31 (a SHA-1 digest, an ID) *)
(*    is the sequence of its base-100000 digits, least significant first.  *)
(*  - None is a record whose first field (made / written / read) is FALSE. *)
(***************************************************************************)
EXTENDS Integers, Sequences, FiniteSets, TLC

VARIABLES
    df,          \* the DataFrame of the current build (read_file's result)
    deck,        \* the genanki.Deck of the current build
    model,       \* the genanki.Model of the current build
    archive,     \* the .apkg file written by make_package
    collection,  \* the Collection returned by read_package
    call,        \* the last call: its name, return value, exception, log output
    clock,       \* wall-clock time (time.time()); the code under src/ never reads it
    seen,        \* history: the rows make_notes has iterated over, in order
    prev,        \* history: the deck and model of the build before this one
    notes_calls, \* number of make_notes calls of the current build
    pure,        \* the notes built by the specification of MyNote alone
    quoted,      \* a string and the results of strip_quotes applied to it
    input,       \* history: the file the last read_file call was given
    reader,      \* read_package's temporary directory and database connection
    model_recalls \* number of repeated make_model calls of the current build

vars == <<df, deck, model, archive, collection, call, clock, seen, prev,
          notes_calls, pure, quoted, input, reader, model_recalls>>

-----------------------------------------------------------------------------
(* Bounds of the model.                                                    *)

MaxRows == 2
MaxClock == 1
MaxNotesCalls == 2
MaxTextLen == 2
MaxQuotedLen == 3
MaxStrips == 2
MaxModelRecalls == 1

-----------------------------------------------------------------------------
(* Characters and text.                                                    *)

Space == " "
Tab == "\t"
DQ == "\""
SQ == "'"
Dot == "."
US == "US"

None == <<>>

RECURSIVE lstrip(_, _)
lstrip(s, chars) ==
    IF s # <<>> /\ Head(s) \in chars THEN lstrip(Tail(s), chars) ELSE s

RECURSIVE rstrip(_, _)
rstrip(s, chars) ==
    IF s # <<>> /\ s[Len(s)] \in chars
    THEN rstrip(SubSeq(s, 1, Len(s) - 1), chars)
    ELSE s

strip(s, chars) == rstrip(lstrip(s, chars), chars)

lower_char(c) ==
    CASE c = "A" -> "a"
      [] c = "B" -> "b"
      [] OTHER -> c

lower(s) == [i \in 1..Len(s) |-> lower_char(s[i])]

startswith(s, c) == s # <<>> /\ Head(s) = c

endswith(s, c) == s # <<>> /\ s[Len(s)] = c

DigitChar(d) == <<"0", "1", "2", "3", "4", "5", "6", "7", "8", "9">>[d + 1]

RECURSIVE int_str(_)
int_str(n) ==
    IF n < 10 THEN <<DigitChar(n)>>
    ELSE int_str(n \div 10) \o <<DigitChar(n % 10)>>

(* A cell of the table: a str, or an int of a column pandas parsed as      *)
(* numeric.                                                                *)
StrCell(s) == [kind |-> "str", n |-> 0, s |-> s]

IntCell(n) == [kind |-> "int", n |-> n, s |-> <<>>]

_str(cell) == IF cell.kind = "int" THEN int_str(cell.n) ELSE cell.s

strip_quotes_double_only(self) ==
    IF startswith(self, DQ) /\ endswith(self, DQ)
    THEN SubSeq(self, 2, Len(self) - 1)
    ELSE self

strip_quotes_any_pair(self) ==
    IF (startswith(self, DQ) \/ startswith(self, SQ))
       /\ (endswith(self, DQ) \/ endswith(self, SQ))
    THEN SubSeq(self, 2, Len(self) - 1)
    ELSE self

strip_quotes(self) ==
    IF (startswith(self, DQ) /\ endswith(self, DQ))
       \/ (startswith(self, SQ) /\ endswith(self, SQ))
    THEN SubSeq(self, 2, Len(self) - 1)
    ELSE self

RECURSIVE TextsUpTo(_, _)
TextsUpTo(alphabet, n) ==
    IF n = 0 THEN {<<>>}
    ELSE LET shorter == TextsUpTo(alphabet, n - 1)
         IN  shorter \cup {Append(t, c) : t \in shorter, c \in alphabet}

-----------------------------------------------------------------------------
(* Identifiers.                                                            *)

LimbBase == 100000
IdLimbs == 2

(* hashlib.sha1(seed.encode()).hexdigest() read as an integer, for the     *)
(* seeds the model hashes: the true SHA-1 digests, base LimbBase, least    *)
(* significant digit first.                                                *)
Sha1Seeds ==
    {"Basic Vanilla", "Basic Listen", "Basic Q&A", "Basic Q&A Listen",
     "Basic Reverse", "Basic Reverse Listen", "french", "spanish"}

sha1_int(string) ==
    CASE string = "Basic Vanilla" ->
           <<28944, 14932, 74688, 51671, 75783, 7396, 86547, 7583, 1776, 811>>
      [] string = "Basic Listen" ->
           <<77834, 80485, 41609, 80147, 17850, 33328, 77519, 34636, 51944, 1335>>
      [] string = "Basic Q&A" ->
           <<35721, 90368, 62981, 35632, 70010, 83979, 740, 3035, 54314, 441>>
      [] string = "Basic Q&A Listen" ->
           <<46878, 4120, 16522, 92518, 33446, 91457, 95811, 43498, 38019, 294>>
      [] string = "Basic Reverse" ->
           <<64556, 69014, 12895, 88591, 5283, 15363, 58805, 63108, 2996, 565>>
      [] string = "Basic Reverse Listen" ->
           <<92830, 68480, 73932, 65840, 40939, 10512, 28578, 61912, 56915, 1458>>
      [] string = "french" ->
           <<2065, 32745, 97039, 6327, 30822, 11393, 1437, 90735, 99335, 290>>
      [] string = "spanish" ->
           <<52536, 40570, 33739, 10276, 7393, 63022, 61907, 47031, 78366, 1300>>

(* x % LimbBase^IdLimbs of a digit sequence x.                             *)
mod_pow(x) == SubSeq(x, 1, IdLimbs)

generate_integer_id_salted(string) ==
    LET x == mod_pow(sha1_int(string))
    IN  [x EXCEPT ![1] = (x[1] + clock) % LimbBase]

generate_integer_id(string) == mod_pow(sha1_int(string))

(* genanki.guid_for(value): a hash of the value and of nothing else.       *)
guid_for(value) == [guid_of |-> value]

GuidStripChars == {Space, DQ, Dot, SQ}

guid_case_sensitive(fields) == guid_for(strip(fields[1], GuidStripChars))

guid(fields) == guid_for(lower(strip(fields[1], GuidStripChars)))

-----------------------------------------------------------------------------
(* The table (pandas.DataFrame).                                           *)

NoDf == [read |-> FALSE, name |-> "", columns |-> <<>>, rows |-> <<>>,
         field_names |-> <<>>]

Has(seq, x) == \E i \in 1..Len(seq) : seq[i] = x

IndexOf(seq, x) == CHOOSE i \in 1..Len(seq) : seq[i] = x

(* d[name] = values: replaces the column, or appends it when it is new.    *)
set_column(d, name, values) ==
    IF Has(d.columns, name)
    THEN [d EXCEPT !.rows = [r \in 1..Len(d.rows) |->
              [d.rows[r] EXCEPT ![IndexOf(d.columns, name)] = values[r]]]]
    ELSE [d EXCEPT !.columns = Append(d.columns, name),
                   !.rows = [r \in 1..Len(d.rows) |-> Append(d.rows[r], values[r])]]

LogRec(level, msg) == [level |-> level, msg |-> msg, row |-> <<>>, nums |-> <<>>]

-----------------------------------------------------------------------------
(* Card templates.                                                         *)

lower_name(field_name) ==
    CASE field_name = "Phonetics" -> "phonetics"
      [] field_name = "Phonetics_Answer" -> "phonetics_answer"
      [] OTHER -> field_name

field(field_name, key, tag) ==
    LET plain == IF key = "type" THEN <<"{{", "type:", field_name, "}}">>
                 ELSE IF key = "edit" THEN <<"{{", "edit:", field_name, "}}">>
                 ELSE <<"{{", field_name, "}}">>
        div == IF tag = "div"
               THEN <<"<div class=\"", lower_name(field_name), "\">">> \o plain
                        \o <<"</div>">>
               ELSE plain
    IN  IF tag = "h1"
        THEN <<"<h1 class=\"one\"><span>">> \o div \o <<"</span></h1>">>
        ELSE div

br == <<"<br>">>
hr == <<"<hr>">>
Q_mislabelled == <<"A: ">>

Q == <<"Q: ">>
A == <<"A: ">>

Tail5 ==
    field("Remark", "edit", "") \o hr \o field("Image", "", "") \o hr
        \o field("More", "", "")

model_name_of(columns) ==
    LET n0 == "Basic Vanilla"
        n1 == IF Has(columns, "Listen") THEN "Basic Listen" ELSE n0
        n2 == IF Has(columns, "Q&A") THEN "Basic Q&A" ELSE n1
        n3 == IF Has(columns, "Q&A") /\ Has(columns, "Listen")
              THEN "Basic Q&A Listen" ELSE n2
    IN  IF Has(columns, "Reverse")
        THEN IF Has(columns, "Listen") THEN "Basic Reverse Listen" ELSE "Basic Reverse"
        ELSE n3

qftm_1_with_front(columns) ==
    IF Has(columns, "Q&A")
    THEN Q \o field(columns[1], "", "") \o field("Sound", "", "") \o br
           \o field("Q&A", "", "") \o br
    ELSE field(columns[1], "", "") \o field("Sound", "", "") \o br

qftm_1(columns) ==
    LET q0 == field(columns[1], "", "") \o field("Sound", "", "") \o br
                \o field("Phonetics", "", "div") \o hr
        q1 == IF Has(columns, "Listen") THEN field("Sound", "", "") \o br ELSE q0
        q2 == IF Has(columns, "Q&A")
              THEN Q \o field(columns[1], "", "") \o field("Sound", "", "") \o br
                     \o field("Phonetics", "", "div") \o hr
                     \o field("Q&A", "", "") \o br
              ELSE q1
    IN  IF Has(columns, "Q&A") /\ Has(columns, "Listen")
        THEN Q \o field("Sound", "", "") \o br \o field("Q&A", "", "") \o br
        ELSE q2

aftm_1(columns) ==
    LET a0 == field("FrontSide", "", "") \o field(columns[2], "", "") \o hr \o Tail5
        a1 == IF Has(columns, "Listen")
              THEN field("FrontSide", "", "") \o field(columns[1], "", "") \o br
                     \o field("Phonetics", "", "div") \o hr
                     \o field(columns[2], "", "") \o hr \o Tail5
              ELSE a0
        a2 == IF Has(columns, "Q&A")
              THEN field("FrontSide", "", "")
                     \o A \o field(columns[2], "", "")
                     \o field("Sound_Answer", "", "") \o br
                     \o field("Phonetics_Answer", "", "div") \o hr \o Tail5
              ELSE a1
    IN  IF Has(columns, "Q&A") /\ Has(columns, "Listen")
        THEN field("FrontSide", "", "") \o field(columns[1], "", "") \o br
               \o field("Phonetics", "", "div") \o hr
               \o A \o field(columns[2], "", "")
               \o field("Sound_Answer", "", "") \o br
               \o field("Phonetics_Answer", "", "div") \o hr \o Tail5
        ELSE a2

qftm_2_unswapped(columns) ==
    field(columns[1], "", "") \o hr \o field(columns[2], "type", "")

qftm_2(columns) ==
    field(columns[2], "", "") \o hr \o field(columns[1], "type", "")

aftm_2 ==
    field("FrontSide", "", "") \o field("Sound", "", "") \o br
        \o field("Phonetics", "", "div") \o hr \o Tail5

templates_of(columns) ==
    <<[name |-> "Card 1", qfmt |-> qftm_1(columns), afmt |-> aftm_1(columns)]>>
    \o (IF Has(columns, "Reverse")
        THEN <<[name |-> "Card 2", qfmt |-> qftm_2(columns), afmt |-> aftm_2]>>
        ELSE <<>>)

card_log_silent(columns) ==
    IF ~Has(columns, "Reverse")
    THEN <<LogRec("info", "Only front-to-back cards will be created.")>>
         \o (IF Has(columns, "Q&A")
             THEN <<LogRec("info", "Cards are in Q&A format.")>>
             ELSE <<>>)
    ELSE <<LogRec("info", "Front-to-back and back-to-front cards will be created.")>>

card_log(columns) ==
    IF ~Has(columns, "Reverse")
    THEN <<LogRec("info", "Only front-to-back cards will be created.")>>
         \o (IF Has(columns, "Q&A")
             THEN <<LogRec("info", "Cards are in Q&A format.")>>
             ELSE <<>>)
    ELSE IF Has(columns, "Q&A")
    THEN <<LogRec("error", "Q&A cards cannot be reversed. What would that even mean?")>>
    ELSE <<LogRec("info", "Front-to-back and back-to-front cards will be created.")>>

listen_check_any_row(d) ==
    IF ~Has(d.columns, "Listen") THEN [raised |-> "", log |-> <<>>]
    ELSE IF ~Has(d.columns, "Sound")
    THEN [raised |-> "AttributeError", log |-> <<>>]
    ELSE IF \E r \in 1..Len(d.rows) :
               d.rows[r][IndexOf(d.columns, "Sound")] = StrCell(<<>>)
    THEN [raised |-> "ValueError: Listen column requires Sound column.",
          log |-> <<LogRec("error", "Listen column obviously requires Sound column.")>>]
    ELSE [raised |-> "",
          log |-> <<LogRec("info", "Front of front-to-back cards will be Sound only.")>>]

(* df.Sound[0]: the attribute lookup fails when the table has no column    *)
(* of that name.                                                           *)
listen_check(d) ==
    IF ~Has(d.columns, "Listen") THEN [raised |-> "", log |-> <<>>]
    ELSE IF ~Has(d.columns, "Sound")
    THEN [raised |-> "AttributeError", log |-> <<>>]
    ELSE IF d.rows[1][IndexOf(d.columns, "Sound")] = StrCell(<<>>)
    THEN [raised |-> "ValueError: Listen column requires Sound column.",
          log |-> <<LogRec("error", "Listen column obviously requires Sound column.")>>]
    ELSE [raised |-> "",
          log |-> <<LogRec("info", "Front of front-to-back cards will be Sound only.")>>]

make_templates_leaky(d) ==
    LET chk == listen_check(d)
        fresh == templates_of(d.columns)
        carried == prev.valid /\ prev.model.made /\ Has(prev.columns, "Q&A")
        swap_labels(t) ==
            [i \in 1..Len(t) |->
                IF t[i] = "Q: " THEN "A: " ELSE IF t[i] = "A: " THEN "Q: " ELSE t[i]]
    IN  [raised |-> chk.raised,
         model_name |-> IF chk.raised = "" THEN model_name_of(d.columns) ELSE "",
         templates |-> IF chk.raised # "" THEN <<>>
                       ELSE IF carried
                       THEN [i \in 1..Len(fresh) |->
                               [fresh[i] EXCEPT !.qfmt = swap_labels(@),
                                                !.afmt = swap_labels(@)]]
                       ELSE fresh,
         log |-> card_log(d.columns) \o chk.log]

make_templates(d) ==
    LET chk == listen_check(d)
    IN  [raised |-> chk.raised,
         model_name |-> IF chk.raised = "" THEN model_name_of(d.columns) ELSE "",
         templates |-> IF chk.raised = "" THEN templates_of(d.columns) ELSE <<>>,
         log |-> card_log(d.columns) \o chk.log]

-----------------------------------------------------------------------------
(* Decks and models.                                                       *)

NoDeck == [made |-> FALSE, deck_id |-> <<>>, name |-> "", notes |-> <<>>]

NoModel == [made |-> FALSE, model_id |-> <<>>, name |-> "", fields |-> <<>>,
            templates |-> <<>>]

NoneName == "<None>"

make_deck_by_title(d, deck_name) ==
    LET title == IF deck_name = NoneName THEN d.name ELSE deck_name
    IN  [made |-> TRUE, deck_id |-> generate_integer_id(title), name |-> title,
         notes |-> <<>>]

make_deck(d, deck_name) ==
    [made |-> TRUE,
     deck_id |-> generate_integer_id(d.name),
     name |-> IF deck_name = NoneName THEN d.name ELSE deck_name,
     notes |-> <<>>]

field_names_to_add == <<"Remark", "More", "Phonetics", "Sound", "Image">>

add_missing_unchecked(field_names, to_add) == field_names \o to_add

RECURSIVE add_missing(_, _)
add_missing(field_names, to_add) ==
    IF to_add = <<>> THEN field_names
    ELSE add_missing(IF Has(field_names, Head(to_add)) THEN field_names
                     ELSE Append(field_names, Head(to_add)),
                     Tail(to_add))

field_names_of(columns) == add_missing(columns, field_names_to_add)

(* make_model's result: the exception make_templates raised, or the Model  *)
(* and the field names it records in df.attrs.                             *)
make_model(d) ==
    LET t == make_templates(d)
    IN  IF t.raised # ""
        THEN [raised |-> t.raised, log |-> t.log, field_names |-> d.field_names,
              model |-> NoModel]
        ELSE [raised |-> "", log |-> t.log,
              field_names |-> field_names_of(d.columns),
              model |-> [made |-> TRUE,
                         model_id |-> generate_integer_id(t.model_name),
                         name |-> t.model_name,
                         fields |-> field_names_of(d.columns),
                         templates |-> t.templates]]

-----------------------------------------------------------------------------
(* Notes.                                                                  *)

MyNote(model_id, fields, tags) ==
    [mid |-> model_id, fields |-> fields, tags |-> tags, guid |-> guid(fields)]

exceeds_header_ge(row_list, header) == Len(row_list) >= Len(header)

exceeds_header_at_full(row_list, header) == Len(row_list) = Len(header)

exceeds_header(row_list, header) == Len(row_list) > Len(header)

note_fields_unpadded(row_list, header) ==
    [i \in 1..Len(row_list) |-> strip_quotes(_str(row_list[i]))]

(* row_list += [''] * (len(header) - len(row_list)), then the fields.      *)
note_fields(row_list, header) ==
    LET padded == row_list \o [i \in 1..(Len(header) - Len(row_list)) |-> StrCell(<<>>)]
    IN  [i \in 1..Len(padded) |-> strip_quotes(_str(padded[i]))]

RowError(row_list) ==
    [level |-> "error", msg |-> "Number of fields in row exceeds header. Row:",
     row |-> row_list, nums |-> <<>>]

CreatedInfo(successful_notes, total_rows) ==
    [level |-> "info", msg |-> "Created {} notes out of {} possible lines.",
     row |-> <<>>, nums |-> <<successful_notes, total_rows>>]

RECURSIVE notes_loop(_, _, _, _)
notes_loop(rows, header, model_id, acc) ==
    IF rows = <<>> THEN acc
    ELSE LET row_list == Head(rows)
         IN  IF exceeds_header(row_list, header)
             THEN notes_loop(Tail(rows), header, model_id,
                      [acc EXCEPT !.log = Append(@, RowError(row_list))])
             ELSE notes_loop(Tail(rows), header, model_id,
                      [acc EXCEPT
                          !.notes = Append(@, MyNote(model_id,
                                               note_fields(row_list, header), <<>>)),
                          !.successful_notes = @ + 1])

make_notes_counts_rows(d, dk, m) ==
    LET r == notes_loop(d.rows, d.field_names, m.model_id,
                        [notes |-> dk.notes, log |-> <<>>, successful_notes |-> 0])
    IN  [notes |-> r.notes,
         log |-> Append(r.log, CreatedInfo(Len(d.rows), Len(d.rows)))]

make_notes(d, dk, m) ==
    LET r == notes_loop(d.rows, d.field_names, m.model_id,
                        [notes |-> dk.notes, log |-> <<>>, successful_notes |-> 0])
    IN  [notes |-> r.notes,
         log |-> Append(r.log, CreatedInfo(r.successful_notes, Len(d.rows)))]

-----------------------------------------------------------------------------
(* The archive: genanki.Package(deck).write_to_file and read_package.      *)

NoArchive == [written |-> FALSE, missing |-> {}, models |-> {}, notes |-> <<>>]

NoCollection == [read |-> FALSE, models |-> {}, notes |-> <<>>]

RECURSIVE join(_, _)
join(texts, sep) ==
    IF texts = <<>> THEN <<>>
    ELSE IF Len(texts) = 1 THEN texts[1]
    ELSE texts[1] \o sep \o join(Tail(texts), sep)

(* genanki writes a note's tags as ' ' + ' '.join(tags) + ' '.             *)
format_tags(tags) == <<Space>> \o join(tags, <<Space>>) \o <<Space>>

make_package_reversed(dk, m) ==
    [written |-> TRUE,
     missing |-> {},
     models |-> IF dk.notes = <<>> THEN {}
                ELSE {[mid |-> m.model_id, name |-> m.name, flds |-> m.fields]},
     notes |-> [i \in 1..Len(dk.notes) |->
                  LET n == dk.notes[Len(dk.notes) + 1 - i]
                  IN  [mid |-> n.mid, flds |-> join(n.fields, <<US>>),
                       tags |-> format_tags(n.tags)]]]

(* The notes table in rowid order, and the models the notes refer to.      *)
make_package(dk, m) ==
    [written |-> TRUE,
     missing |-> {},
     models |-> IF dk.notes = <<>> THEN {}
                ELSE {[mid |-> m.model_id, name |-> m.name, flds |-> m.fields]},
     notes |-> [i \in 1..Len(dk.notes) |->
                  [mid |-> dk.notes[i].mid,
                   flds |-> join(dk.notes[i].fields, <<US>>),
                   tags |-> format_tags(dk.notes[i].tags)]]]

(* str.split(sep): the pieces between the separators, empty ones kept.     *)
RECURSIVE split(_, _, _)
split(s, sep, piece) ==
    IF s = <<>> THEN <<piece>>
    ELSE IF Head(s) = sep THEN <<piece>> \o split(Tail(s), sep, <<>>)
    ELSE split(Tail(s), sep, Append(piece, Head(s)))

Whitespace == {Space, Tab, "\n"}

(* str.split(): the maximal runs of non-whitespace characters.             *)
RECURSIVE split_ws(_, _)
split_ws(s, piece) ==
    IF s = <<>> THEN (IF piece = <<>> THEN <<>> ELSE <<piece>>)
    ELSE IF Head(s) \in Whitespace
    THEN (IF piece = <<>> THEN <<>> ELSE <<piece>>) \o split_ws(Tail(s), <<>>)
    ELSE split_ws(Tail(s), Append(piece, Head(s)))

ToSet(seq) == {seq[i] : i \in 1..Len(seq)}

(* The parts of an archive read_package looks for: the zip member, the     *)
(* col table and its one record, the notes table, and the JSON text of the *)
(* record's models column.                                                 *)
Parts == {"collection.anki2", "col table", "col record", "notes table", "models json"}

Failed(raised, tmpdir, conn) ==
    [raised |-> raised, collection |-> NoCollection, tmpdir |-> tmpdir, conn |-> conn]

read_collection(a) ==
    [read |-> TRUE,
     models |-> {[mid |-> m.mid, name |-> m.name, field_names |-> m.flds] :
                    m \in a.models},
     notes |-> [i \in 1..Len(a.notes) |->
                  LET mm == CHOOSE m \in a.models : m.mid = a.notes[i].mid
                  IN  [model |-> [name |-> mm.name, field_names |-> mm.flds],
                       field_contents |-> split(a.notes[i].flds, US, <<>>),
                       tags |-> ToSet(split_ws(strip(a.notes[i].tags, Whitespace), <<>>))]]]

read_package_lenient(a) ==
    IF "collection.anki2" \in a.missing THEN Failed("KeyError", "deleted", "none")
    ELSE IF "col table" \in a.missing
    THEN Failed("sqlite3.OperationalError", "deleted", "open")
    ELSE IF "col record" \in a.missing THEN Failed("TypeError", "deleted", "open")
    ELSE IF "models json" \in a.missing
    THEN Failed("json.JSONDecodeError", "deleted", "open")
    ELSE [raised |-> "",
          collection |-> IF "notes table" \in a.missing
                         THEN [read |-> TRUE, models |-> {}, notes |-> <<>>]
                         ELSE read_collection(a),
          tmpdir |-> "deleted", conn |-> "open"]

(* The result of read_package: the exception raised or the Collection, and *)
(* what the call leaves of its two resources. TemporaryDirectory's with    *)
(* block deletes the directory on every exit; the with block of a sqlite3  *)
(* connection commits or rolls back and does not close the connection, and *)
(* the function never calls close().                                       *)
read_package(a) ==
    IF "collection.anki2" \in a.missing THEN Failed("KeyError", "deleted", "none")
    ELSE IF "col table" \in a.missing
    THEN Failed("sqlite3.OperationalError", "deleted", "open")
    ELSE IF "col record" \in a.missing THEN Failed("TypeError", "deleted", "open")
    ELSE IF "notes table" \in a.missing
    THEN Failed("sqlite3.OperationalError", "deleted", "open")
    ELSE IF "models json" \in a.missing
    THEN Failed("json.JSONDecodeError", "deleted", "open")
    ELSE [raised |-> "", collection |-> read_collection(a),
          tmpdir |-> "deleted", conn |-> "open"]

-----------------------------------------------------------------------------
(* Media columns (src/src/media.py).                                       *)

(* The transcription is the espeak backend's; the model takes the text in  *)
(* lower case for it.                                                      *)
espeak(text) == lower(text)

phonemize(x) == StrCell(<<"/">> \o espeak(_str(x)) \o <<"/">>)

Column(d, i) == [r \in 1..Len(d.rows) |-> d.rows[r][i]]

add_phonetics(d) ==
    IF ~Has(d.columns, "Phonetics") THEN d
    ELSE LET d1 == set_column(d, "Phonetics",
                       [r \in 1..Len(d.rows) |-> phonemize(d.rows[r][1])])
         IN  IF Has(d.columns, "Q&A")
             THEN set_column(d1, "Phonetics_Answer",
                      [r \in 1..Len(d.rows) |-> phonemize(d.rows[r][2])])
             ELSE d1

HashStripChars ==
    {Space, Dot, ",", ";", ":", "!", "?", SQ, DQ, "(", ")", "[", "]", "{", "}",
     "<", ">"}

(* The first 16 hex digits of the SHA-256 digest of the normalised text:   *)
(* the model keeps the normalised text as the digest's name.               *)
hash_str(input_str) == <<"sha256(">> \o strip(lower(input_str), HashStripChars) \o <<")">>

file_str(input_str, media_type) ==
    <<media_type, "_">> \o hash_str(input_str)
        \o <<".", IF media_type = "img" THEN "png" ELSE "mp3">>

reference_str(input_str, media_type) ==
    IF media_type = "img"
    THEN <<"<img src=\"">> \o file_str(input_str, media_type) \o <<"\">">>
    ELSE <<"[sound:">> \o file_str(input_str, media_type) \o <<"]">>

(* An int cell has no .lower(): hash_str raises AttributeError on it.      *)
AllStr(cells) == \A i \in 1..Len(cells) : cells[i].kind = "str"

add_sounds(d) ==
    IF ~Has(d.columns, "Sound") THEN [raised |-> "", df |-> d]
    ELSE IF ~AllStr(Column(d, 1)) THEN [raised |-> "AttributeError", df |-> d]
    ELSE LET d1 == set_column(d, "Sound",
                       [r \in 1..Len(d.rows) |->
                           StrCell(reference_str(d.rows[r][1].s, "sound"))])
         IN  IF ~Has(d.columns, "Q&A") THEN [raised |-> "", df |-> d1]
             ELSE IF ~AllStr(Column(d, 2))
             THEN [raised |-> "AttributeError", df |-> d1]
             ELSE [raised |-> "",
                   df |-> set_column(d1, "Sound_Answer",
                              [r \in 1..Len(d.rows) |->
                                  StrCell(reference_str(d.rows[r][2].s, "sound"))])]

-----------------------------------------------------------------------------
(* read_file: the table pandas parsed, line breaks replaced, NaN filled.   *)

NanCell == [kind |-> "nan", n |-> 0, s |-> <<>>]

BR == <<"<", "b", "r", ">">>

(* df.replace({'\n': '<br>', '\\n': '<br>', '\\\\n': '<br>'}, regex=True):  *)
(* a line break, or a backslash followed by n, becomes <br>.               *)
RECURSIVE replace_br(_)
replace_br(s) ==
    IF s = <<>> THEN <<>>
    ELSE IF Head(s) = "\n" THEN BR \o replace_br(Tail(s))
    ELSE IF Head(s) = "\\" /\ Len(s) >= 2 /\ s[2] = "n"
    THEN BR \o replace_br(SubSeq(s, 3, Len(s)))
    ELSE <<Head(s)>> \o replace_br(Tail(s))

read_cell(c) ==
    CASE c.kind = "nan" -> StrCell(<<>>)
      [] c.kind = "str" -> StrCell(replace_br(c.s))
      [] OTHER -> c

encodings == <<"utf-8", "iso-8859-1", "windows-1252">>

(* The bytes of a file's values: an ASCII character stands for its own     *)
(* byte; HighBytes are bytes above 0x7F, named by their hexadecimal value. *)
HighBytes == {"xC3", "xA9", "xE9", "x81"}

Undecodable == [ok |-> FALSE, s |-> <<>>]

(* bytes.decode(encoding): in utf-8 the pair C3 A9 is one character and a  *)
(* lone high byte is an error; iso-8859-1 maps every byte to a character;  *)
(* windows-1252 does the same but has no character for 0x81.               *)
RECURSIVE decode(_, _)
decode(bytes, encoding) ==
    IF bytes = <<>> THEN [ok |-> TRUE, s |-> <<>>]
    ELSE IF Head(bytes) \notin HighBytes
    THEN LET r == decode(Tail(bytes), encoding)
         IN  [ok |-> r.ok, s |-> IF r.ok THEN <<Head(bytes)>> \o r.s ELSE <<>>]
    ELSE IF encoding = "utf-8"
    THEN IF Head(bytes) = "xC3" /\ Len(bytes) >= 2 /\ bytes[2] = "xA9"
         THEN LET r == decode(SubSeq(bytes, 3, Len(bytes)), encoding)
              IN  [ok |-> r.ok, s |-> IF r.ok THEN <<"e-acute">> \o r.s ELSE <<>>]
         ELSE Undecodable
    ELSE IF encoding = "windows-1252" /\ Head(bytes) = "x81" THEN Undecodable
    ELSE LET r == decode(Tail(bytes), encoding)
             c == CASE Head(bytes) = "xC3" -> "A-tilde"
                    [] Head(bytes) = "xA9" -> "copyright"
                    [] Head(bytes) = "xE9" -> "e-acute"
                    [] OTHER -> "U+0081"
         IN  [ok |-> r.ok, s |-> IF r.ok THEN <<c>> \o r.s ELSE <<>>]

decode_cell(c, encoding) ==
    IF c.kind = "str" THEN StrCell(decode(c.s, encoding).s) ELSE c

Decodes(file, encoding) ==
    \A r \in 1..Len(file.rows) : \A i \in 1..Len(file.rows[r]) :
        file.rows[r][i].kind = "str" => decode(file.rows[r][i].s, encoding).ok

(* pd.read_csv(file_path, sep=';', encoding=encoding): a file of no bytes  *)
(* has no columns to parse.                                                *)
read_csv(file, encoding) ==
    IF file.columns = <<>> THEN [raised |-> "EmptyDataError", df |-> NoDf]
    ELSE IF ~Decodes(file, encoding) THEN [raised |-> "UnicodeDecodeError", df |-> NoDf]
    ELSE [raised |-> "",
          df |-> [read |-> TRUE, name |-> "", columns |-> file.columns,
                  rows |-> [r \in 1..Len(file.rows) |->
                              [i \in 1..Len(file.rows[r]) |->
                                  decode_cell(file.rows[r][i], encoding)]],
                  field_names |-> <<>>]]

table_of(file, d) ==
    [d EXCEPT !.name = file.name,
              !.rows = [r \in 1..Len(d.rows) |->
                          [i \in 1..Len(d.rows[r]) |-> read_cell(d.rows[r][i])]]]

RECURSIVE try_encodings(_, _)
try_encodings(file, encs) ==
    IF encs = <<>>
    THEN [raised |-> "ValueError: Could not read the file with any of the provided encodings.",
          df |-> NoDf, encoding |-> ""]
    ELSE LET r == read_csv(file, Head(encs))
         IN  IF r.raised = "" /\ r.df.rows # <<>>
             THEN [raised |-> "", df |-> table_of(file, r.df), encoding |-> Head(encs)]
             ELSE try_encodings(file, Tail(encs))

read_file_latin_first(file) ==
    try_encodings(file, <<"iso-8859-1", "utf-8", "windows-1252">>)

read_file(file) == try_encodings(file, encodings)

-----------------------------------------------------------------------------
(* Input files.                                                            *)

RECURSIVE Select(_, _)
Select(seq, S) ==
    IF seq = <<>> THEN <<>>
    ELSE (IF Head(seq) \in S THEN <<Head(seq)>> ELSE <<>>) \o Select(Tail(seq), S)

Row(front, back, mark, ncols) == <<front, back>> \o [i \in 1..(ncols - 2) |-> mark]

(* Sample rows: a value quoted at both ends, a value with two different    *)
(* quotes, a numeric cell, empty (NaN) cells, a line break inside a value, *)
(* and a value that holds the archive's field separator.                   *)
RowsOf(ncols) ==
    {Row(StrCell(<<DQ, "a", DQ>>), StrCell(<<"b", SQ>>), NanCell, ncols),
     Row(StrCell(<<SQ, "A", DQ>>), IntCell(10), NanCell, ncols),
     Row(StrCell(<<"a">>), StrCell(<<SQ, "b", SQ>>), StrCell(<<"x", "\n", "y">>), ncols),
     Row(StrCell(<<"a", US, "b">>), StrCell(<<"b">>), NanCell, ncols)}

TablesOf(ncols, maxrows) == UNION {[1..n -> RowsOf(ncols)] : n \in 1..maxrows}

RowMarkers == <<"Q&A", "Phonetics", "Sound">>

AuxColumns == <<"Remark", "More", "Image">>

(* Headers with and without the marker columns, and with and without the   *)
(* auxiliary columns the templates name.                                   *)
RowHeaders ==
    {<<"Front", "Back">> \o Select(RowMarkers, S) \o aux :
        S \in SUBSET ToSet(RowMarkers), aux \in {<<>>, AuxColumns}}

RowFiles ==
    UNION {{[name |-> "french", columns |-> h, rows |-> t] :
               t \in TablesOf(Len(h), MaxRows)} : h \in RowHeaders}

SchemaMarkers == <<"Sound", "Listen", "Q&A", "Reverse">>

SchemaHeaders ==
    {fb \o Select(SchemaMarkers, S) :
        fb \in {<<"Front", "Back">>, <<"Word", "Meaning">>},
        S \in SUBSET ToSet(SchemaMarkers)}

SchemaRow(h, sound) ==
    [i \in 1..Len(h) |->
        IF i = 1 THEN StrCell(<<"a">>)
        ELSE IF i = 2 THEN StrCell(<<"b">>)
        ELSE IF h[i] = "Sound" THEN sound
        ELSE NanCell]

SchemaFiles ==
    UNION {{[name |-> "french", columns |-> h, rows |-> <<SchemaRow(h, snd)>>] :
               snd \in IF Has(h, "Sound")
                       THEN {NanCell, StrCell(<<"[", "s", "]">>)} ELSE {NanCell}} :
           h \in SchemaHeaders}

DeckMarkers == <<"Q&A", "Reverse">>

DeckFiles ==
    {[name |-> nm, columns |-> <<"Front", "Back">> \o Select(DeckMarkers, S),
      rows |-> <<<<StrCell(<<"a">>), StrCell(<<"b">>)>> \o [i \in 1..Cardinality(S) |-> NanCell]>>] :
        nm \in {"french", "spanish"}, S \in SUBSET ToSet(DeckMarkers)}

DeckNames == {"spanish"}

-----------------------------------------------------------------------------
(* The operations as steps.                                                *)

Ret(kind) == [kind |-> kind, nums |-> <<>>]

Call(op, ret, raised, log) == [op |-> op, ret |-> ret, raised |-> raised, log |-> log]

NoPrev == [valid |-> FALSE, df_name |-> "", columns |-> <<>>, deck |-> NoDeck,
           model |-> NoModel, raised |-> ""]

NoQuoted == [chosen |-> FALSE, s |-> <<>>, outs |-> <<>>]

NoFile == [name |-> "", columns |-> <<>>, rows |-> <<>>]

NoReader == [tmpdir |-> "none", conn |-> "none"]

StartBuild(files) ==
    /\ \E f \in files :
          LET r == read_file(f)
          IN  /\ df' = r.df
              /\ input' = f
              /\ call' = Call("read_file",
                              IF r.raised = "" THEN Ret("DataFrame") ELSE Ret(""),
                              r.raised, <<>>)
    /\ deck' = NoDeck
    /\ model' = NoModel
    /\ archive' = NoArchive
    /\ collection' = NoCollection
    /\ reader' = NoReader
    /\ seen' = <<>>
    /\ notes_calls' = 0
    /\ model_recalls' = 0
    /\ UNCHANGED <<clock, pure, quoted>>

ReadFile ==
    /\ ~df.read
    /\ StartBuild(RowFiles)
    /\ UNCHANGED prev

(* The next build of the same process, once this one has its deck and its  *)
(* model (or make_model has raised).                                       *)
BuildOver == deck.made /\ call.op = "make_model"

Summary ==
    [valid |-> TRUE, df_name |-> df.name, columns |-> df.columns,
     deck |-> deck, model |-> model, raised |-> call.raised]

NextBuild ==
    /\ ~df.read \/ BuildOver
    /\ StartBuild(DeckFiles)
    /\ prev' = IF df.read THEN Summary ELSE prev

NextSchema ==
    /\ ~df.read \/ BuildOver
    /\ StartBuild(SchemaFiles)
    /\ prev' = IF df.read THEN Summary ELSE prev

AddPhonetics ==
    /\ df.read /\ ~archive.written
    /\ df' = add_phonetics(df)
    /\ call' = Call("add_phonetics", Ret("DataFrame"), "", <<>>)
    /\ UNCHANGED <<deck, model, archive, collection, clock, seen, prev,
                   notes_calls, pure,
                   quoted, input, reader, model_recalls>>

AddSounds ==
    /\ df.read /\ ~archive.written
    /\ LET r == add_sounds(df)
       IN  /\ df' = r.df
           /\ call' = Call("add_sounds",
                           IF r.raised = "" THEN Ret("(DataFrame, list)") ELSE Ret(""),
                           r.raised, <<>>)
    /\ UNCHANGED <<deck, model, archive, collection, clock, seen, prev,
                   notes_calls, pure,
                   quoted, input, reader, model_recalls>>

MakeDeck ==
    /\ df.read /\ ~deck.made /\ ~model.made
    /\ deck' = make_deck(df, NoneName)
    /\ call' = Call("make_deck", Ret("Deck"), "", <<>>)
    /\ UNCHANGED <<df, model, archive, collection, clock, seen, prev,
                   notes_calls, pure,
                   quoted, input, reader, model_recalls>>

MakeDeckNamed ==
    /\ df.read /\ ~deck.made /\ ~model.made
    /\ \E deck_name \in DeckNames : deck' = make_deck(df, deck_name)
    /\ call' = Call("make_deck", Ret("Deck"), "", <<>>)
    /\ UNCHANGED <<df, model, archive, collection, clock, seen, prev,
                   notes_calls, pure,
                   quoted, input, reader, model_recalls>>

MakeModel ==
    /\ df.read /\ deck.made /\ ~model.made
    /\ LET r == make_model(df)
       IN  /\ model' = r.model
           /\ df' = [df EXCEPT !.field_names = r.field_names]
           /\ call' = Call("make_model",
                           IF r.raised = "" THEN Ret("Model") ELSE Ret(""),
                           r.raised, r.log)
    /\ UNCHANGED <<deck, archive, collection, clock, seen, prev, notes_calls, pure,
                   quoted, input, reader, model_recalls>>

MakeNotes ==
    /\ deck.made /\ model.made /\ ~archive.written
    /\ notes_calls < MaxNotesCalls
    /\ LET r == make_notes(df, deck, model)
       IN  /\ deck' = [deck EXCEPT !.notes = r.notes]
           /\ call' = Call("make_notes", Ret("None"), "", r.log)
    /\ seen' = seen \o df.rows
    /\ notes_calls' = notes_calls + 1
    /\ UNCHANGED <<df, model, archive, collection, clock, prev, pure,
                   quoted, input, reader, model_recalls>>

MakePackage ==
    /\ deck.made /\ model.made /\ notes_calls > 0 /\ ~archive.written
    /\ archive' = make_package(deck, model)
    /\ call' = Call("make_package", Ret("None"), "", <<>>)
    /\ UNCHANGED <<df, deck, model, collection, clock, seen, prev, notes_calls, pure,
                   quoted, input, reader, model_recalls>>

(* After a normal return nothing refers to the connection any more and the *)
(* runtime may have finalized it (CPython does, at once) or not yet; after *)
(* an exception the traceback's frame still refers to it.                  *)
ReadPackage ==
    /\ archive.written /\ reader.tmpdir = "none"
    /\ LET r == read_package(archive)
       IN  /\ collection' = r.collection
           /\ call' = Call("read_package",
                           IF r.raised = "" THEN Ret("Collection") ELSE Ret(""),
                           r.raised, <<>>)
           /\ \E conn \in IF r.raised = "" THEN {r.conn, "closed"} ELSE {r.conn} :
                 reader' = [tmpdir |-> r.tmpdir, conn |-> conn]
    /\ UNCHANGED <<df, deck, model, archive, clock, seen, prev, notes_calls, pure,
                   quoted, input, model_recalls>>

(* An archive that lacks some of the parts: written by another tool, or    *)
(* cut short.                                                              *)
Damage ==
    /\ archive.written /\ archive.missing = {} /\ reader.tmpdir = "none"
    /\ \E S \in (SUBSET Parts) \ {{}} : archive' = [archive EXCEPT !.missing = S]
    /\ UNCHANGED <<df, deck, model, collection, call, clock, seen, prev, notes_calls,
                   pure, quoted, input, reader, model_recalls>>

ReadDeckFile ==
    /\ ~df.read
    /\ StartBuild(DeckFiles)
    /\ UNCHANGED prev

Tick ==
    /\ clock < MaxClock
    /\ clock' = clock + 1
    /\ UNCHANGED <<df, deck, model, archive, collection, call, seen, prev,
                   notes_calls, pure,
                   quoted, input, reader, model_recalls>>

Init ==
    /\ df = NoDf
    /\ deck = NoDeck
    /\ model = NoModel
    /\ archive = NoArchive
    /\ collection = NoCollection
    /\ call = Call("", Ret(""), "", <<>>)
    /\ clock = 0
    /\ seen = <<>>
    /\ prev = NoPrev
    /\ notes_calls = 0
    /\ pure = <<>>
    /\ quoted = NoQuoted
    /\ input = NoFile
    /\ reader = NoReader
    /\ model_recalls = 0

Next ==
    \/ ReadFile
    \/ AddPhonetics
    \/ AddSounds
    \/ MakeDeck
    \/ MakeModel
    \/ MakeNotes
    \/ MakePackage
    \/ ReadPackage

Spec == Init /\ [][Next]_vars

NextBuilds ==
    \/ NextBuild
    \/ MakeDeck
    \/ MakeDeckNamed
    \/ MakeModel
    \/ Tick

SpecBuilds == Init /\ [][NextBuilds]_vars

NextSchemas ==
    \/ NextSchema
    \/ MakeDeck
    \/ MakeModel

SpecSchemas == Init /\ [][NextSchemas]_vars

NextArchives ==
    \/ ReadDeckFile
    \/ MakeDeck
    \/ MakeModel
    \/ MakeNotes
    \/ MakePackage
    \/ Damage
    \/ ReadPackage

SpecArchives == Init /\ [][NextArchives]_vars

-----------------------------------------------------------------------------
(* MyNote alone: two notes built from arbitrary fields.                    *)

GuidAlphabet == {"a", "A", Space, DQ, Tab}

FirstFields == TextsUpTo(GuidAlphabet, MaxTextLen)

NewNotes ==
    /\ pure = <<>>
    /\ \E f1 \in FirstFields, f2 \in FirstFields,
          other \in {<<"b">>, <<"c">>},
          m \in {generate_integer_id("Basic Vanilla"), generate_integer_id("Basic Q&A")},
          tags \in {<<>>, <<<<"t">>>>} :
          pure' = <<MyNote(generate_integer_id("Basic Vanilla"), <<f1, <<"b">>>>, <<>>),
                    MyNote(m, <<f2, other>>, tags)>>
    /\ UNCHANGED <<df, deck, model, archive, collection, call, clock, seen, prev,
                   notes_calls,
                   quoted, input, reader, model_recalls>>

SpecGuid == Init /\ [][NewNotes]_vars

-----------------------------------------------------------------------------
(* read_file on files of every shape: no bytes at all, a header and no     *)
(* rows, and rows whose values hold ASCII, UTF-8 and other bytes.          *)

EncodedValues == {<<"a">>, <<"xC3", "xA9">>, <<"xE9">>, <<"x81">>}

EncodedRows ==
    {<<StrCell(front), StrCell(back)>> :
        front \in EncodedValues, back \in {<<"b">>, <<"xE9">>}}

EncodedFiles ==
    {[name |-> "french", columns |-> <<>>, rows |-> <<>>]}
    \cup {[name |-> "french", columns |-> <<"Front", "Back">>, rows |-> t] :
             t \in UNION {[1..n -> EncodedRows] : n \in 0..MaxRows}}

ReadEncodedFile ==
    /\ ~df.read
    /\ StartBuild(EncodedFiles)
    /\ UNCHANGED prev

NextFiles ==
    \/ ReadEncodedFile
    \/ MakeDeck
    \/ MakeModel
    \/ MakeNotes

SpecFiles == Init /\ [][NextFiles]_vars

(* Tables with a Listen and a Sound column whose rows hold no Sound value, *)
(* a sound reference, or a blank.                                          *)

SoundValues == {NanCell, StrCell(<<"[", "s", "]">>), StrCell(<<Space>>)}

ListenFiles ==
    UNION {{[name |-> "french",
             columns |-> <<"Front", "Back", "Sound", "Listen">> \o Select(DeckMarkers, S),
             rows |-> [r \in 1..n |->
                         <<StrCell(<<"a">>), StrCell(<<"b">>), snd[r], NanCell>>
                             \o [i \in 1..Cardinality(S) |-> NanCell]]] :
               snd \in [1..n -> SoundValues], S \in SUBSET ToSet(DeckMarkers)} :
           n \in 1..MaxRows}

ReadListenFile ==
    /\ ~df.read \/ BuildOver
    /\ StartBuild(ListenFiles)
    /\ UNCHANGED prev

NextListen ==
    \/ ReadListenFile
    \/ MakeDeck
    \/ MakeModel
    \/ MakeNotes

SpecListen == Init /\ [][NextListen]_vars

(* make_model alone, called once or repeatedly on tables whose headers     *)
(* hold some of the well-known field names, in an order of their own.      *)

HeaderMarkers == <<"Image", "Sound", "Q&A", "Remark", "Phonetics", "More">>

HeaderFiles ==
    {[name |-> "french",
      columns |-> <<"Front", "Back">> \o Select(HeaderMarkers, S),
      rows |-> <<<<StrCell(<<"a">>), StrCell(<<"b">>)>>
                    \o [i \in 1..Cardinality(S) |-> NanCell]>>] :
        S \in SUBSET ToSet(HeaderMarkers)}

ReadHeader ==
    /\ ~df.read \/ BuildOver
    /\ StartBuild(HeaderFiles)
    /\ UNCHANGED prev

MakeModelAgain ==
    /\ model.made
    /\ model_recalls < MaxModelRecalls
    /\ LET r == make_model(df)
       IN  /\ model' = r.model
           /\ df' = [df EXCEPT !.field_names = r.field_names]
           /\ call' = Call("make_model",
                           IF r.raised = "" THEN Ret("Model") ELSE Ret(""),
                           r.raised, r.log)
    /\ model_recalls' = model_recalls + 1
    /\ UNCHANGED <<deck, archive, collection, clock, seen, prev, notes_calls, pure,
                   quoted, input, reader>>

NextModels ==
    \/ ReadHeader
    \/ MakeDeck
    \/ MakeModel
    \/ MakeModelAgain

SpecModels == Init /\ [][NextModels]_vars

(* _str.strip_quotes alone: a string, and the method applied to it and to  *)
(* its own result.                                                         *)

QuoteAlphabet == {DQ, SQ, "a", Space}

NewText ==
    /\ ~quoted.chosen
    /\ \E s \in TextsUpTo(QuoteAlphabet, MaxQuotedLen) :
          quoted' = [chosen |-> TRUE, s |-> s, outs |-> <<>>]
    /\ UNCHANGED <<df, deck, model, archive, collection, call, clock, seen, prev,
                   notes_calls, pure, input, reader, model_recalls>>

StripQuotes ==
    /\ quoted.chosen
    /\ Len(quoted.outs) < MaxStrips
    /\ LET self == IF quoted.outs = <<>> THEN quoted.s
                   ELSE quoted.outs[Len(quoted.outs)]
       IN  quoted' = [quoted EXCEPT !.outs = Append(@, strip_quotes(self))]
    /\ UNCHANGED <<df, deck, model, archive, collection, call, clock, seen, prev,
                   notes_calls, pure, input, reader, model_recalls>>

NextQuotes ==
    \/ NewText
    \/ StripQuotes

SpecQuotes == Init /\ [][NextQuotes]_vars

-----------------------------------------------------------------------------

(* Properties.                                                             *)

InRange(id) == Len(id) = IdLimbs /\ \A i \in 1..Len(id) : id[i] \in 0..(LimbBase - 1)

TwoDecks == prev.valid /\ prev.deck.made /\ deck.made

TwoModels == prev.valid /\ prev.model.made /\ model.made

(* C1, as stated: two builds with the same declared deck name (the name of *)
(* the input file, df.attrs['name']) get the same Deck ID and the same     *)
(* Model ID, and two builds with different names get different Deck IDs.   *)
C1_SameNameSameDeckAndModelId ==
    /\ TwoDecks =>
          (prev.df_name = df.name) = (prev.deck.deck_id = deck.deck_id)
    /\ TwoModels /\ prev.df_name = df.name =>
          prev.model.model_id = model.model_id

(* C1, amended: the Deck ID is the same exactly when the input files'      *)
(* names are the same, whatever deck_name argument names the deck; the     *)
(* Model ID does not depend on the deck name: it is the same exactly when  *)
(* the two schemas select the same model name.                             *)
C1_DeckIdByFileNameModelIdByModelName ==
    /\ TwoDecks =>
          (prev.df_name = df.name) = (prev.deck.deck_id = deck.deck_id)
    /\ TwoModels =>
          (prev.model.name = model.name) = (prev.model.model_id = model.model_id)

C1_Witness ==
    /\ TwoDecks /\ TwoModels
    /\ prev.df_name = df.name
    /\ prev.deck.name # deck.name
    /\ prev.deck.deck_id = deck.deck_id
    /\ prev.model.model_id # model.model_id

(* C2: generate_integer_id returns a value in [0, 10^10), and the same     *)
(* value for the same seed in an earlier build and at an earlier time, so  *)
(* a Model ID is the same for the same model name in both builds.          *)
C2_IdDeterministicAndBounded ==
    /\ deck.made => InRange(deck.deck_id)
    /\ model.made => InRange(model.model_id)
    /\ TwoDecks /\ prev.df_name = df.name => prev.deck.deck_id = deck.deck_id
    /\ TwoModels /\ prev.model.name = model.name =>
          prev.model.model_id = model.model_id

C2_Witness ==
    /\ TwoDecks /\ TwoModels
    /\ clock > 0
    /\ prev.df_name = df.name
    /\ prev.model.name = model.name
    /\ prev.model.model_id = model.model_id
    /\ InRange(model.model_id)

-----------------------------------------------------------------------------
(* The rows make_notes has seen, against the notes of the deck.            *)

Oversized(row) == Len(row) > Len(df.field_names)

RECURSIVE Filter(_, _)
Filter(rows, keep_oversized) ==
    IF rows = <<>> THEN <<>>
    ELSE (IF Oversized(Head(rows)) = keep_oversized THEN <<Head(rows)>> ELSE <<>>)
         \o Filter(Tail(rows), keep_oversized)

HasSeparator(row) ==
    \E i \in 1..Len(row) : \E j \in 1..Len(row[i].s) : row[i].s[j] = US

(* A well-formed row: no more values than the schema has fields, and no    *)
(* value that holds the character the archive separates fields with.       *)
WellFormed(row) == ~Oversized(row) /\ ~HasSeparator(row)

(* The normalized value at position j of a row: the stringified value      *)
(* without its delimiting quotes, or the empty string past the row's end.  *)
Normalized(row, j) == IF j <= Len(row) THEN strip_quotes(_str(row[j])) ELSE <<>>

C4_ListenWithoutSoundIsValueError ==
    call.op = "make_model" /\ Has(df.columns, "Listen") /\ ~Has(df.columns, "Sound") =>
        /\ call.raised = "ValueError: Listen column requires Sound column."
        /\ ~model.made
        /\ deck.notes = <<>>

(* C5, as stated: two schemas whose templates or field lists differ get    *)
(* different model names and different Model IDs.                          *)
C5_DifferentSchemasDifferentModelIds ==
    TwoModels /\ (prev.model.templates # model.templates
                    \/ prev.model.fields # model.fields) =>
        /\ prev.model.name # model.name
        /\ prev.model.model_id # model.model_id

(* C6: every note of the deck comes from a row with no more values than    *)
(* the schema, and has exactly len(schema) fields: the quote-stripped      *)
(* stringified row value at each position of the row, the empty string at  *)
(* each position after the row's end.                                      *)
C6_NoteFieldsPadded ==
    LET kept == Filter(seen, FALSE)
    IN  /\ Len(deck.notes) = Len(kept)
        /\ \A i \in 1..Len(deck.notes) :
              LET f == deck.notes[i].fields
                  row == kept[i]
              IN  /\ Len(f) = Len(df.field_names)
                  /\ \A j \in 1..Len(f) :
                        f[j] = IF j <= Len(row) THEN strip_quotes(_str(row[j])) ELSE <<>>

C6_Witness ==
    \E i \in 1..Len(deck.notes) :
        /\ Len(Filter(seen, FALSE)[i]) < Len(deck.notes[i].fields)
        /\ deck.notes[i].fields[1] = <<"a">>
        /\ deck.notes[i].fields[2] = <<"b", SQ>>
        /\ deck.notes[i].fields[Len(df.field_names)] = <<>>

ErrorsOf(log) == SelectSeq(log, LAMBDA r : r.level = "error")

(* C7: a call of make_notes leaves the deck's earlier notes in place and   *)
(* appends one note per row that is not longer than the schema, in row     *)
(* order; it logs one error per longer row, naming the row, and returns    *)
(* without raising.                                                        *)
C7_SkipAndContinue ==
    [][notes_calls' = notes_calls + 1 =>
          LET kept == Filter(df.rows, FALSE)
              skipped == Filter(df.rows, TRUE)
              old == Len(deck.notes)
          IN  /\ Len(deck'.notes) = old + Len(kept)
              /\ SubSeq(deck'.notes, 1, old) = deck.notes
              /\ \A i \in 1..Len(kept) :
                    deck'.notes[old + i].fields[1] = strip_quotes(_str(kept[i][1]))
              /\ Len(ErrorsOf(call'.log)) = Len(skipped)
              /\ \A i \in 1..Len(skipped) : ErrorsOf(call'.log)[i].row = skipped[i]
              /\ call'.raised = ""]_vars

C7_Witness ==
    /\ call.op = "make_notes"
    /\ Len(ErrorsOf(call.log)) = 2
    /\ Len(deck.notes) = 2
    /\ deck.notes[1] # deck.notes[2]

Created(log) == log[Len(log)]

(* C8, as stated: make_notes returns the pair (notes created, rows seen).  *)
C8_ReturnsCounts ==
    call.op = "make_notes" =>
        /\ call.ret.kind = "tuple"
        /\ call.ret.nums = <<Len(df.rows) - Len(ErrorsOf(call.log)), Len(df.rows)>>

(* C8, amended: make_notes returns None; its last log record reports the   *)
(* number of notes created and the number of rows seen, where created is   *)
(* the number of notes this call appended to the deck, seen the number of  *)
(* input rows, and created = seen minus the number of skipped rows.        *)
C8_LogsCounts ==
    [][notes_calls' = notes_calls + 1 =>
          /\ call'.ret = Ret("None")
          /\ Created(call'.log).level = "info"
          /\ Created(call'.log).nums =
                <<Len(deck'.notes) - Len(deck.notes), Len(df.rows)>>
          /\ Created(call'.log).nums[1] =
                Len(df.rows) - Len(Filter(df.rows, TRUE))]_vars

C8_Witness ==
    /\ call.op = "make_notes"
    /\ call.ret = Ret("None")
    /\ Created(call.log).nums = <<0, 2>>
    /\ Len(deck.notes) = 2

NormalForm(s, trimmed) == lower(strip(s, trimmed))

(* C9, as stated: two notes whose first fields have the same form once     *)
(* surrounding whitespace and quote characters are trimmed and letters are *)
(* lower-cased have the same guid, whatever else the notes hold.           *)
C9_GuidIgnoresCaseWhitespaceQuotes ==
    pure # <<>> /\ NormalForm(pure[1].fields[1], Whitespace \cup {DQ, SQ})
                     = NormalForm(pure[2].fields[1], Whitespace \cup {DQ, SQ}) =>
        pure[1].guid = pure[2].guid

(* C9, amended: the guid is a function of the first field with surrounding *)
(* space (U+0020), period and quote characters trimmed and letters         *)
(* lower-cased; two notes whose first fields have the same such form have  *)
(* the same guid, whatever their other fields, model or tags are.          *)
C9_GuidOfTrimmedLowercasedFirstField ==
    pure # <<>> /\ NormalForm(pure[1].fields[1], {Space, Dot, DQ, SQ})
                     = NormalForm(pure[2].fields[1], {Space, Dot, DQ, SQ}) =>
        pure[1].guid = pure[2].guid

C9_Witness ==
    /\ pure # <<>>
    /\ pure[1].fields[1] = <<Space, "A">>
    /\ pure[2].fields[1] = <<"a", DQ>>
    /\ pure[1].fields[2] # pure[2].fields[2]
    /\ pure[1].mid # pure[2].mid
    /\ pure[1].tags # pure[2].tags
    /\ pure[1].guid = pure[2].guid

(* C10: a make_templates call returns the same model name and the same     *)
(* templates as the call of the build before it whenever the two tables    *)
(* have the same columns, whatever their rows hold and whatever schema was *)
(* built in between.                                                       *)
C10_TemplatesPure ==
    TwoModels /\ prev.columns = df.columns =>
        /\ prev.model.name = model.name
        /\ prev.model.templates = model.templates

C10_Witness ==
    /\ TwoModels
    /\ prev.columns = df.columns
    /\ Has(df.columns, "Q&A")
    /\ Has(df.columns, "Listen")
    /\ prev.model.templates = model.templates
    /\ Len(model.templates) = 2

-----------------------------------------------------------------------------
(* The card templates of the model.                                        *)

Contains(t, sub) ==
    \E i \in 0..(Len(t) - Len(sub)) : SubSeq(t, i + 1, i + Len(sub)) = sub

(* The template shows a field: it holds the field's plain placeholder.     *)
Shows(t, name) == Contains(t, <<"{{", name, "}}">>)

(* The template asks for a field: it holds the field's type-in placeholder. *)
AsksFor(t, name) == Contains(t, <<"{{", "type:", name, "}}">>)

(* C11: a model has two templates when the table has a Reverse column and  *)
(* one otherwise; the question side of the second template shows field 1   *)
(* and asks for field 0, where the first template (without Listen) shows   *)
(* field 0 on the question side and field 1 on the answer side.            *)
C11_SecondTemplateIffReverse ==
    model.made =>
        /\ Len(model.templates) = IF Has(df.columns, "Reverse") THEN 2 ELSE 1
        /\ model.templates[1].name = "Card 1"
        /\ ~Has(df.columns, "Listen") =>
              /\ Shows(model.templates[1].qfmt, df.columns[1])
              /\ Shows(model.templates[1].afmt, df.columns[2])
        /\ Has(df.columns, "Reverse") =>
              LET q == model.templates[2].qfmt
              IN  /\ model.templates[2].name = "Card 2"
                  /\ Shows(q, df.columns[2])
                  /\ AsksFor(q, df.columns[1])
                  /\ ~Shows(q, df.columns[1])
                  /\ ~AsksFor(q, df.columns[2])
                  /\ ~Shows(model.templates[2].afmt, df.columns[2])

C11_Witness ==
    /\ model.made
    /\ Has(df.columns, "Reverse")
    /\ Len(model.templates) = 2
    /\ Shows(model.templates[2].qfmt, "Meaning")
    /\ AsksFor(model.templates[2].qfmt, "Word")

-----------------------------------------------------------------------------
(* Quote stripping.                                                        *)

(* The string starts and ends with the same quote character.               *)
Delimited(s) ==
    /\ Len(s) >= 1
    /\ s[1] \in {DQ, SQ}
    /\ s[Len(s)] = s[1]

(* C12, as stated: strip_quotes applied to its own result returns that     *)
(* result.                                                                 *)
C12_StripQuotesIdempotent ==
    Len(quoted.outs) >= 2 => quoted.outs[2] = quoted.outs[1]

(* C12, amended: strip_quotes removes the outermost pair of quotes only,   *)
(* so a second application returns the first result unchanged exactly when *)
(* that result does not itself start and end with the same quote           *)
(* character; otherwise it removes one more pair.                          *)
C12_IdempotentUnlessNestedQuotes ==
    Len(quoted.outs) >= 2 =>
        /\ (quoted.outs[2] = quoted.outs[1]) = ~Delimited(quoted.outs[1])
        /\ Delimited(quoted.outs[1]) =>
              quoted.outs[2] = SubSeq(quoted.outs[1], 2, Len(quoted.outs[1]) - 1)

C12_Witness ==
    /\ Len(quoted.outs) = 2
    /\ quoted.s = <<DQ, "a", DQ>>
    /\ quoted.outs = <<<<"a">>, <<"a">>>>

(* C13: strip_quotes returns the string without its first and its last     *)
(* character when the string starts and ends with the same quote character *)
(* (a string that is one quote character becomes empty), and the string    *)
(* itself in every other case; the characters between the two ends, quotes *)
(* included, are kept in place.                                            *)
C13_StripsOneMatchingPair ==
    Len(quoted.outs) >= 1 =>
        LET s == quoted.s
            out == quoted.outs[1]
        IN  IF Delimited(s)
            THEN /\ Len(out) = (IF Len(s) = 1 THEN 0 ELSE Len(s) - 2)
                 /\ \A i \in 1..Len(out) : out[i] = s[i + 1]
            ELSE out = s

C13_Witness ==
    /\ Len(quoted.outs) >= 1
    /\ quoted.s = <<SQ, DQ, SQ>>
    /\ quoted.outs[1] = <<DQ>>

-----------------------------------------------------------------------------
(* The field schema.                                                       *)

Unique(seq) == \A i, j \in 1..Len(seq) : seq[i] = seq[j] => i = j

WellKnown == <<"Remark", "More", "Phonetics", "Sound", "Image">>

(* C14: the schema of a model, and the field names the table records, are  *)
(* the header's columns in their order followed by those of Remark, More,  *)
(* Phonetics, Sound, Image, in that order, that the header lacks; no name  *)
(* occurs twice; the same holds after make_model is called again on the    *)
(* same table.                                                             *)
C14_SchemaIsHeaderPlusMissingWellKnown ==
    model.made =>
        LET n == Len(df.columns)
        IN  /\ Unique(model.fields)
            /\ SubSeq(model.fields, 1, n) = df.columns
            /\ model.fields[1] = input.columns[1]
            /\ model.fields[2] = input.columns[2]
            /\ SubSeq(model.fields, n + 1, Len(model.fields))
                  = Select(WellKnown, ToSet(WellKnown) \ ToSet(df.columns))
            /\ df.field_names = model.fields

C14_Witness ==
    /\ model.made
    /\ model_recalls = 1
    /\ df.columns = <<"Front", "Back", "Image", "Sound">>
    /\ model.fields = <<"Front", "Back", "Image", "Sound", "Remark", "More", "Phonetics">>

-----------------------------------------------------------------------------
(* Reading archives.                                                       *)

ReadReturned == call.op = "read_package" /\ reader.tmpdir # "none"

(* C15, as stated: after read_package has returned or raised, the          *)
(* temporary directory is deleted and the database connection, if one was  *)
(* opened, is closed.                                                      *)
C15_ResourcesReleasedOnEveryExit ==
    ReadReturned => reader.tmpdir = "deleted" /\ reader.conn # "open"

(* C16: a read_package call on an archive that lacks collection.anki2, the *)
(* col table, its record or the notes table raises and returns no          *)
(* Collection; every read_package call leaves the archive, the table, the  *)
(* deck and the model as they were.                                        *)
C16_ReadErrorLeavesArchive ==
    [][reader.tmpdir = "none" /\ reader'.tmpdir # "none" =>
          /\ archive' = archive
          /\ df' = df /\ deck' = deck /\ model' = model
          /\ archive.missing \cap {"collection.anki2", "col table", "col record",
                                   "notes table"} # {} =>
                /\ call'.raised # ""
                /\ call'.ret = Ret("")
                /\ ~collection'.read]_vars

C16_Witness ==
    /\ ReadReturned
    /\ archive.missing = {"notes table"}
    /\ call.raised = "sqlite3.OperationalError"
    /\ ~collection.read
    /\ Len(deck.notes) > 0

-----------------------------------------------------------------------------
(* Reading files.                                                          *)

(* Reading the file with the encoding raises nothing and gives a table     *)
(* with at least one row.                                                  *)
Yields(file, encoding) ==
    /\ file.columns # <<>>
    /\ Decodes(file, encoding)
    /\ file.rows # <<>>

(* C17: the table of the build is the file's table decoded with the first  *)
(* of utf-8, iso-8859-1, windows-1252 that decodes the file and gives a    *)
(* table with rows; when none of the three does, read_file raises          *)
(* ValueError and there is no table; a table read never has zero rows.     *)
C17_FirstEncodingThatYieldsATable ==
    LET order == <<"utf-8", "iso-8859-1", "windows-1252">>
        good == {i \in 1..Len(order) : Yields(input, order[i])}
    IN  IF good = {}
        THEN /\ ~df.read
             /\ call.op = "read_file" =>
                   /\ call.ret = Ret("")
                   /\ call.raised =
                         "ValueError: Could not read the file with any of the provided encodings."
        ELSE LET first == CHOOSE i \in good : \A j \in good : i <= j
             IN  /\ df.read
                 /\ df.rows # <<>>
                 /\ df.name = input.name
                 /\ df.columns = input.columns
                 /\ Len(df.rows) = Len(input.rows)
                 /\ \A r \in 1..Len(df.rows) : \A c \in 1..Len(input.rows[r]) :
                       df.rows[r][c] =
                           read_cell(decode_cell(input.rows[r][c], order[first]))
                 /\ call.op = "read_file" => call.raised = ""

C17_Witness ==
    /\ call.op = "read_file"
    /\ input.rows # <<>>
    /\ input.rows[1][1] = StrCell(<<"xE9">>)
    /\ input.rows[1][2] = StrCell(<<"b">>)
    /\ df.read
    /\ df.rows[1][1] = StrCell(<<"e-acute">>)

-----------------------------------------------------------------------------
(* Listen, Q&A and Reverse in the templates.                               *)

(* The names of the plain placeholders of a template.                      *)
PlainPlaceholders(t) ==
    {t[i + 1] : i \in {k \in 1..(Len(t) - 2) : t[k] = "{{" /\ t[k + 2] = "}}"}}

PhoneticsBlock(t) == Contains(t, <<"<div class=\"", "phonetics", "\">">>)

Count(t, piece) == Cardinality({i \in 1..Len(t) : t[i] = piece})

C19_QuestionAndAnswerLabels ==
    model.made /\ Has(df.columns, "Q&A") =>
        LET q == model.templates[1].qfmt
            a == model.templates[1].afmt
        IN  /\ q[1] = "Q: "
            /\ Shows(q, "Q&A")
            /\ Contains(a, <<"A: ", "{{", df.columns[2], "}}">>)
            /\ Count(q, "Q: ") = 1 /\ Count(q, "A: ") = 0
            /\ Count(a, "A: ") = 1 /\ Count(a, "Q: ") = 0

C19_Witness ==
    /\ model.made
    /\ Has(df.columns, "Q&A") /\ Has(df.columns, "Listen") /\ Has(df.columns, "Reverse")
    /\ model.templates[1].qfmt[1] = "Q: "
    /\ Contains(model.templates[1].afmt, <<"A: ", "{{", "Back", "}}">>)

ConflictLogged(log) ==
    Cardinality({i \in 1..Len(log) :
        /\ log[i].level = "error"
        /\ log[i].msg = "Q&A cards cannot be reversed. What would that even mean?"}) = 1

(* The Listen check of make_templates passes: there is no Listen column,   *)
(* or there is a Sound column whose first value is not empty.              *)
ListenPasses ==
    Has(df.columns, "Listen") =>
        /\ Has(df.columns, "Sound")
        /\ df.rows[1][IndexOf(df.columns, "Sound")] # StrCell(<<>>)

(* C20, as stated: with a Reverse and a Q&A column make_model logs the     *)
(* conflict as an error, raises nothing, and the model has a name and two  *)
(* templates.                                                              *)
C20_ConflictLoggedNeverRaises ==
    call.op = "make_model" /\ Has(df.columns, "Reverse") /\ Has(df.columns, "Q&A") =>
        /\ ConflictLogged(call.log)
        /\ call.raised = ""
        /\ model.made
        /\ model.name # ""
        /\ Len(model.templates) = 2

(* C20, amended: with a Reverse and a Q&A column the conflict is logged as *)
(* an error in every call; the conflict itself raises nothing, and the     *)
(* call returns a model name and two templates exactly when the Listen     *)
(* check passes; with a Listen column and no usable Sound column the call  *)
(* raises after the conflict was logged, and no model is made.             *)
C20_ConflictLoggedRaisesOnlyForListen ==
    call.op = "make_model" /\ Has(df.columns, "Reverse") /\ Has(df.columns, "Q&A") =>
        /\ ConflictLogged(call.log)
        /\ IF ListenPasses
           THEN /\ call.raised = ""
                /\ model.made
                /\ model.name \in {"Basic Reverse", "Basic Reverse Listen"}
                /\ Len(model.templates) = 2
           ELSE /\ call.raised # ""
                /\ ~model.made

C20_Witness ==
    /\ call.op = "make_model"
    /\ Has(df.columns, "Reverse") /\ Has(df.columns, "Q&A")
    /\ ~Has(df.columns, "Listen")
    /\ ConflictLogged(call.log)
    /\ call.raised = ""
    /\ Len(model.templates) = 2

-----------------------------------------------------------------------------
(* Templates against the field schema.                                     *)

(* The fields a template refers to: the names of its plain, type-in and    *)
(* edit placeholders, the built-in FrontSide apart.                        *)
ReferencedFields(t) ==
    (PlainPlaceholders(t)
        \cup {t[i + 2] : i \in {k \in 1..(Len(t) - 3) :
                                  /\ t[k] = "{{"
                                  /\ t[k + 1] \in {"type:", "edit:"}
                                  /\ t[k + 3] = "}}"}})
    \ {"FrontSide"}

(* C21, as stated: every field a template of the model refers to is a      *)
(* field of the model's schema.                                            *)
C21_TemplatesReferToSchemaFields ==
    model.made =>
        \A i \in 1..Len(model.templates) :
            ReferencedFields(model.templates[i].qfmt)
                \cup ReferencedFields(model.templates[i].afmt)
            \subseteq ToSet(model.fields)

(* A Q&A model whose answer side refers to Sound_Answer and                *)
(* Phonetics_Answer while its schema holds neither.                        *)
C21_Witness ==
    /\ model.made
    /\ Has(df.columns, "Q&A")
    /\ {"Sound_Answer", "Phonetics_Answer"}
          \subseteq ReferencedFields(model.templates[1].afmt)
    /\ {"Sound_Answer", "Phonetics_Answer"} \cap ToSet(model.fields) = {}

-----------------------------------------------------------------------------
(* The Listen check and the rows of the table.                             *)

SoundOf(r) == df.rows[r][IndexOf(df.columns, "Sound")]

(* C22: with a Listen and a Sound column make_model raises ValueError      *)
(* exactly when the Sound value of the first row is the empty string;      *)
(* otherwise it returns a model, whatever the Sound values of the later    *)
(* rows are.                                                               *)
C22_ListenCheckReadsFirstRowOnly ==
    call.op = "make_model" /\ Has(df.columns, "Listen") /\ Has(df.columns, "Sound") =>
        IF SoundOf(1) = StrCell(<<>>)
        THEN /\ call.raised = "ValueError: Listen column requires Sound column."
             /\ ~model.made
        ELSE /\ call.raised = ""
             /\ model.made

C22_Witness ==
    /\ call.op = "make_model"
    /\ Has(df.columns, "Listen") /\ Has(df.columns, "Sound")
    /\ Len(df.rows) = 2
    /\ SoundOf(1) # StrCell(<<>>)
    /\ SoundOf(2) = StrCell(<<>>)
    /\ call.raised = ""
    /\ model.made

-----------------------------------------------------------------------------
(* Rows against the schema make_model recorded.                            *)

IsPrefix(p, seq) == Len(p) <= Len(seq) /\ SubSeq(seq, 1, Len(p)) = p

(* The table has the columns it had when make_model recorded field_names:  *)
(* field_names starts with the columns of that time, and columns are only  *)
(* ever added at the end.                                                  *)
ColumnsUnchanged == IsPrefix(df.columns, df.field_names)

(* C23: a make_notes call on a table whose columns are those make_model    *)
(* saw finds no row longer than the schema, logs no error and appends one  *)
(* note per row; a call that skips a row runs on a table that has gained   *)
(* a Sound_Answer or Phonetics_Answer column since make_model.             *)
C23_SkipOnlyAfterColumnsAdded ==
    [][notes_calls' = notes_calls + 1 =>
          /\ ColumnsUnchanged =>
                /\ \A r \in 1..Len(df.rows) : Len(df.rows[r]) <= Len(df.field_names)
                /\ ErrorsOf(call'.log) = <<>>
                /\ Len(deck'.notes) = Len(deck.notes) + Len(df.rows)
          /\ ErrorsOf(call'.log) # <<>> =>
                /\ ~ColumnsUnchanged
                /\ \E i \in 1..Len(df.columns) :
                      /\ df.columns[i] \in {"Sound_Answer", "Phonetics_Answer"}
                      /\ ~Has(df.field_names, df.columns[i])]_vars

C23_Witness ==
    /\ call.op = "make_notes"
    /\ notes_calls = 1
    /\ ColumnsUnchanged
    /\ Len(df.columns) = Len(df.field_names)
    /\ Has(df.columns, "Q&A")
    /\ Len(df.rows) = 2
    /\ Len(deck.notes) = 2

=============================================================================
